---------------------------- MODULE Spec2Model ----------------------------
(***************************************************************************)
(* A model of nvidia-examples/cnn/nvutils/runner.py: the step-logging      *)
(* hook, the train and validate entry points of one worker process, and    *)
(* the training session with its staging areas.                            *)
(*                                                                         *)
(* Three specifications share the variables:                               *)
(*   SpecLog      _LogSessionRunHook driven by an arbitrary sequence of    *)
(*                session-run callbacks;                                   *)
(*   Spec         train / validate of one worker of rank `rank` out of     *)
(*                `size`, with failures and interrupts of the framework;   *)
(*   SpecSession  one training session: the hooks and the staging areas.   *)
(***************************************************************************)
EXTENDS Integers, Sequences, FiniteSets, TLC

VARIABLES
    \* ---- _LogSessionRunHook (lines 48-74)
    display_every,   \* self.display_every
    elapsed_secs,    \* self.elapsed_secs ("unset" until after_create_session)
    count,           \* self.count        ("unset" until after_create_session)
    t0,              \* self.t0           ("unset" until before_run)
    now,             \* the clock read by time.time()
    hookpc,          \* "absent", "constructed", "idle" (between runs), "running"
    calls,           \* history of the callbacks made so far
    \* ---- the worker process and the arguments of train / validate
    op,              \* "train" or "validate": the entry point called
    rank,            \* hvd.rank()
    size,            \* hvd.size()
    params,          \* the params dictionary the caller supplied
    train_files,     \* the files matching <data_dir>/train-*, sorted by name
    \* ---- local variables of train / validate (None until assigned)
    pc,              \* the block of statements to execute next, or "done"
    log_dir,
    data_dir,
    data_idx_dir,
    global_batch_size,
    num_training_samples,
    train_idx_filenames,
    nstep,
    decay_steps,
    num_epochs,
    classifier,      \* the estimator: its params and its run configuration
    training_hooks,
    \* ---- what the framework driver was given and did
    max_steps,       \* max_steps argument of classifier.train
    received,        \* the hyperparameters _cnn_model_function read
    driver_step,     \* optimizer steps the training driver has run
    checkpointed,    \* TRUE once this worker wrote a checkpoint
    evaluated,       \* TRUE once this worker started an evaluation
    stdout,          \* the kinds of lines this worker printed
    raised,          \* the exception raised inside train / validate, if any
    outcome,         \* how the call ended: status and propagated exception
    \* ---- one training session
    sess_pc,         \* "graph", "hooks", "prefill", "ready", "step", "finished"
    enqueue_ops,     \* the collection STAGING_AREA_PUTS
    train_op,        \* the operations grouped into train_op
    host_area,       \* batches held by the host staging area, oldest first
    device_area,     \* batches held by the device staging area, oldest first
    gpucopy_in,      \* the batch gpucopy_op took from the host area
    next_batch,      \* the batch the input pipeline produces next
    pending,         \* operations of the current session.run not yet executed
    hook_idx,        \* the hook whose after_create_session is called next
    prefill_i,       \* the loop variable i of _PrefillStagingAreasHook
    events,          \* the hooks that completed, in order
    trained          \* the batches the optimizer steps consumed, in order

logVars == <<display_every, elapsed_secs, count, t0, now, hookpc, calls>>

argVars == <<op, rank, size, params, train_files>>

localVars == <<log_dir, data_dir, data_idx_dir, global_batch_size,
               num_training_samples, train_idx_filenames, nstep, decay_steps,
               num_epochs, classifier, training_hooks>>

driverVars == <<max_steps, received, driver_step, checkpointed, evaluated>>

endVars == <<stdout, raised, outcome>>

runVars == <<argVars, pc, localVars, driverVars, endVars>>

sessVars == <<sess_pc, enqueue_ops, train_op, host_area, device_area,
              gpucopy_in, next_batch, pending, hook_idx, prefill_i, events,
              trained>>

vars == <<logVars, runVars, sessVars>>

-----------------------------------------------------------------------------
(* Bounds *)
MaxDisplayEvery == 2   \* display_every ranges over 1..MaxDisplayEvery
MaxGlobalStep   == 3   \* fetched global step ranges over 0..MaxGlobalStep
MaxDt           == 1   \* a session run lasts 0..MaxDt clock ticks
MaxCalls        == 4   \* callbacks recorded in one behaviour
MaxSize         == 2   \* hvd.size() ranges over 1..MaxSize
MaxBatch        == 2   \* batch_size ranges over 1..MaxBatch
MaxIter         == 2   \* num_iter ranges over 1..MaxIter
MaxFiles        == 3   \* at most MaxFiles training files
MaxRecords      == 4   \* the training files hold at most MaxRecords records in all
MaxSteps        == 3   \* a training session runs 1..MaxSteps steps

Unset == "unset"

\* Python's None and a value that is present.
None == <<>>
Some(v) == <<v>>
Val(x) == x[1]

-----------------------------------------------------------------------------
(* _LogSessionRunHook *)

\* The printing condition of after_run (line 67).
ShouldPrintOnlyMultiples(print_step, every) ==
    print_step % every = 0

ShouldPrint(print_step, every) ==
    print_step = 1 \/ print_step % every = 0

\* The accumulator after a progress line was printed (lines 73-74).
AccumulatorKeepsElapsed(elapsed, n) ==
    [elapsed_secs |-> elapsed, count |-> 0]

AccumulatorAfterPrint(elapsed, n) ==
    [elapsed_secs |-> 0, count |-> 0]

\* One entry of the callback history.
CallRecord(kind, step, dur, printed, e, n) ==
    [kind |-> kind, print_step |-> step, dur |-> dur, printed |-> printed,
     rep_elapsed |-> e, rep_count |-> n]

\* after_create_session (lines 53-56): print the header, zero the
\* accumulator.
HookAfterCreateSession ==
    /\ elapsed_secs' = 0
    /\ count' = 0
    /\ hookpc' = "idle"
    /\ calls' = Append(calls, CallRecord("create", 0, 0, TRUE, 0, 0))
    /\ UNCHANGED <<display_every, t0, now>>

\* before_run (lines 57-61): remember the time the run starts; `gap` ticks
\* have passed since the previous callback.
HookBeforeRun(gap) ==
    /\ now' = now + gap
    /\ t0' = now'
    /\ hookpc' = "running"
    /\ UNCHANGED <<display_every, elapsed_secs, count, calls>>

\* after_run (lines 62-74): the run took d ticks and fetched global_step.
HookAfterRun(d, global_step) ==
    LET t1         == now + d                      \* time.time()
        elapsed    == elapsed_secs + (t1 - t0)
        n          == count + 1
        print_step == global_step + 1
        prints     == ShouldPrint(print_step, display_every)
        acc        == IF prints THEN AccumulatorAfterPrint(elapsed, n)
                               ELSE [elapsed_secs |-> elapsed, count |-> n]
    IN  /\ now' = t1
        /\ elapsed_secs' = acc.elapsed_secs
        /\ count' = acc.count
        /\ calls' = Append(calls,
               CallRecord("run", print_step, t1 - t0, prints,
                          IF prints THEN elapsed ELSE 0,
                          IF prints THEN n ELSE 0))
        /\ hookpc' = "idle"
        /\ UNCHANGED <<display_every, t0>>

\* The hook driven by any sequence of callbacks a session can make.
LogAfterCreateSession ==
    /\ hookpc \in {"constructed", "idle"}
    /\ Len(calls) < MaxCalls
    /\ HookAfterCreateSession
    /\ UNCHANGED <<runVars, sessVars>>

LogBeforeRun ==
    /\ hookpc = "idle"
    /\ Len(calls) < MaxCalls
    /\ \E gap \in 0..1 : HookBeforeRun(gap)
    /\ UNCHANGED <<runVars, sessVars>>

LogAfterRun ==
    /\ hookpc = "running"
    /\ \E d \in 0..MaxDt, global_step \in 0..MaxGlobalStep :
          HookAfterRun(d, global_step)
    /\ UNCHANGED <<runVars, sessVars>>

-----------------------------------------------------------------------------
(* Helpers of train *)

\* str.lower() on the letters an iteration unit is written with; a string is
\* a sequence of one-character strings.
LowerChar(c) ==
    CASE c = "E" -> "e"
      [] c = "P" -> "p"
      [] c = "O" -> "o"
      [] c = "C" -> "c"
      [] c = "H" -> "h"
      [] c = "B" -> "b"
      [] c = "A" -> "a"
      [] c = "T" -> "t"
      [] OTHER   -> c

Lower(str) == [i \in DOMAIN str |-> LowerChar(str[i])]

EpochWord == <<"e", "p", "o", "c", "h">>

\* A record file is the sequence of its records; count_records iterates
\* over it (lines 169-173).
RECURSIVE count_records(_)
count_records(tf_record_filename) ==
    IF tf_record_filename = <<>> THEN 0
    ELSE 1 + count_records(Tail(tf_record_filename))

\* _get_num_records (lines 174-176): only the first and the last file are
\* read; every file but the last is taken to hold as many records as the
\* first.
GetNumRecords(filenames) ==
    LET nfile == Len(filenames)
    IN  count_records(filenames[1]) * (nfile - 1)
          + count_records(filenames[nfile])

Max(a, b) == IF a >= b THEN a ELSE b

\* The step-count arithmetic (lines 225-231), for N samples and global batch
\* size G.  num_epochs is assigned in the second branch only.
StepCountsDecayAlwaysNinety(iter_unit, num_iter, N, G) ==
    IF Lower(iter_unit) = EpochWord
    THEN [nstep       |-> (N * num_iter) \div G,
          decay_steps |-> Some((90 * N) \div G),
          num_epochs  |-> None]
    ELSE [nstep       |-> num_iter,
          decay_steps |-> Some((90 * N) \div G),
          num_epochs  |-> Some(Max((num_iter * G) \div N, 1))]

StepCounts(iter_unit, num_iter, N, G) ==
    IF Lower(iter_unit) = EpochWord
    THEN [nstep       |-> (N * num_iter) \div G,
          decay_steps |-> Some((N * num_iter) \div G),
          num_epochs  |-> None]
    ELSE [nstep       |-> num_iter,
          decay_steps |-> Some((90 * N) \div G),
          num_epochs  |-> Some(Max((num_iter * G) \div N, 1))]

\* "" stands for an unset directory (lines 209-211, 333-334).
NoneIfEmpty(dir) == IF dir = "" THEN None ELSE Some(dir)

\* The params of the estimator built by train (lines 247-262).
TrainEstimatorParamsSwapped(p, decay) ==
    [format              |-> p.image_format,
     dtype               |-> IF p.precision = "fp16" THEN "float16" ELSE "float32",
     momentum            |-> p.weight_decay,
     learning_rate_init  |-> p.learning_rate_init,
     learning_rate_power |-> p.learning_rate_power,
     decay_steps         |-> decay,
     weight_decay        |-> p.momentum,
     loss_scale          |-> p.loss_scale,
     larc_eta            |-> p.larc_eta,
     larc_mode           |-> p.larc_mode,
     deterministic       |-> FALSE,
     n_classes           |-> 1000,
     use_dali            |-> p.use_dali]

TrainEstimatorParams(p, decay) ==
    [format              |-> p.image_format,
     dtype               |-> IF p.precision = "fp16" THEN "float16" ELSE "float32",
     momentum            |-> p.momentum,
     learning_rate_init  |-> p.learning_rate_init,
     learning_rate_power |-> p.learning_rate_power,
     decay_steps         |-> decay,
     weight_decay        |-> p.weight_decay,
     loss_scale          |-> p.loss_scale,
     larc_eta            |-> p.larc_eta,
     larc_mode           |-> p.larc_mode,
     deterministic       |-> FALSE,
     n_classes           |-> 1000,
     use_dali            |-> p.use_dali]

\* The checkpoint settings of the RunConfig built by train (lines 266-267).
TrainRunConfigEveryRank(r, checkpoint_secs, steps) ==
    [save_checkpoints_secs  |-> checkpoint_secs,
     save_checkpoints_steps |-> Some(steps)]

TrainRunConfig(r, checkpoint_secs, steps) ==
    [save_checkpoints_secs  |-> IF r = 0 THEN checkpoint_secs ELSE None,
     save_checkpoints_steps |-> IF r = 0 THEN Some(steps) ELSE None]

\* The hooks handed to the training driver (lines 278-284).
TrainingHooksPrefillFirst(r) ==
    <<"_PrefillStagingAreasHook", "BroadcastGlobalVariablesHook">>
      \o (IF r = 0 THEN <<"_LogSessionRunHook">> ELSE <<>>)

TrainingHooks(r) ==
    <<"BroadcastGlobalVariablesHook", "_PrefillStagingAreasHook">>
      \o (IF r = 0 THEN <<"_LogSessionRunHook">> ELSE <<>>)

\* The locals _cnn_model_function reads from the estimator params
\* (lines 77-90).
ModelFunctionLocals(p) ==
    [model_format        |-> p.format,
     model_dtype         |-> p.dtype,
     momentum            |-> p.momentum,
     learning_rate_init  |-> p.learning_rate_init,
     learning_rate_power |-> p.learning_rate_power,
     decay_steps         |-> p.decay_steps,
     weight_decay        |-> p.weight_decay,
     loss_scale          |-> p.loss_scale,
     larc_eta            |-> p.larc_eta,
     larc_mode           |-> p.larc_mode,
     deterministic       |-> p.deterministic,
     num_classes         |-> p.n_classes,
     use_dali            |-> p.use_dali]

-----------------------------------------------------------------------------
(* Exceptions *)

\* Any failure of the framework that is not a keyboard interrupt.
FrameworkErrors == {"IOError", "RuntimeError"}

\* The statements inside the try blocks: the training driver call
\* (lines 296-300); the evaluation driver call and the two accuracy prints
\* (lines 386-394).
TrainTry == {"train_call", "train_running"}

ValidateTry == {"validate_evaluate", "validate_evaluating",
                "validate_top1", "validate_top5"}

\* except KeyboardInterrupt (lines 301, 395).
CaughtInTrainOnly(at, e) ==
    e = "KeyboardInterrupt" /\ at \in TrainTry

CaughtWhatever(at, e) ==
    at \in TrainTry \cup ValidateTry

Caught(at, e) ==
    e = "KeyboardInterrupt" /\ at \in TrainTry \cup ValidateTry

\* Exception e is raised by the statements at `at`: the handler prints its
\* notice and the call returns, or the exception leaves the call.
Throw(e, at) ==
    /\ raised' = Some([type |-> e, at |-> at])
    /\ pc' = "done"
    /\ IF Caught(at, e)
       THEN /\ stdout' = stdout \cup {"Keyboard interrupt"}
            /\ outcome' = [status |-> "returned", exc |-> ""]
       ELSE /\ stdout' = stdout
            /\ outcome' = [status |-> "raised", exc |-> e]

Return ==
    /\ pc' = "done"
    /\ outcome' = [status |-> "returned", exc |-> ""]
    /\ UNCHANGED raised

\* The blocks that call into the framework (tensorflow, horovod) or print.
FrameworkCalls ==
    {"train_records", "train_estimator", "train_hooks", "train_call",
     "train_running", "validate_glob", "validate_estimator", "validate_rank",
     "validate_evaluate", "validate_evaluating", "validate_top1",
     "validate_top5"}

\* The blocks during which a keyboard interrupt can be delivered: all but
\* the first block of each entry point.
Interruptible == FrameworkCalls \cup {"train_steps"}

\* A framework call fails.
Failure ==
    /\ pc \in FrameworkCalls
    /\ \E e \in FrameworkErrors : Throw(e, pc)
    /\ UNCHANGED <<argVars, localVars, driverVars>>
    /\ UNCHANGED <<logVars, sessVars>>

\* The user interrupts the process.
Interrupt ==
    /\ pc \in Interruptible
    /\ Throw("KeyboardInterrupt", pc)
    /\ UNCHANGED <<argVars, localVars, driverVars>>
    /\ UNCHANGED <<logVars, sessVars>>

-----------------------------------------------------------------------------
(* train (lines 178-302) *)

\* Lines 179-211: read the params, normalise the directories.
TrainArgs ==
    /\ pc = "train_args"
    /\ log_dir' = NoneIfEmpty(params.log_dir)
    /\ data_dir' = NoneIfEmpty(params.data_dir)
    /\ data_idx_dir' = NoneIfEmpty(params.data_idx_dir)
    /\ pc' = "train_records"
    /\ UNCHANGED <<global_batch_size, num_training_samples,
                   train_idx_filenames, nstep, decay_steps, num_epochs,
                   classifier, training_hooks>>
    /\ UNCHANGED <<argVars, driverVars, endVars, logVars, sessVars>>

\* Lines 213-223: the global batch size and the number of training samples.
\* With no file matching the pattern filenames[0] raises IndexError.
TrainRecords ==
    /\ pc = "train_records"
    /\ global_batch_size' = Some(params.batch_size * size)
    /\ IF data_dir # None /\ train_files = <<>>
       THEN /\ Throw("IndexError", pc)
            /\ UNCHANGED <<num_training_samples, train_idx_filenames>>
       ELSE /\ num_training_samples' =
                  IF data_dir # None
                  THEN Some(GetNumRecords(train_files))
                  ELSE Some(params.batch_size * size)
            /\ train_idx_filenames' =
                  IF data_idx_dir # None
                  THEN Some([i \in DOMAIN train_files |-> i])
                  ELSE None
            /\ pc' = "train_steps"
            /\ UNCHANGED endVars
    /\ UNCHANGED <<log_dir, data_dir, data_idx_dir, nstep, decay_steps,
                   num_epochs, classifier, training_hooks>>
    /\ UNCHANGED <<argVars, driverVars, logVars, sessVars>>

\* Lines 225-233: nstep, decay_steps, num_epochs.
TrainSteps ==
    /\ pc = "train_steps"
    /\ LET c == StepCounts(params.iter_unit, params.num_iter,
                           Val(num_training_samples), Val(global_batch_size))
       IN  /\ nstep' = Some(c.nstep)
           /\ decay_steps' = c.decay_steps
           /\ num_epochs' = c.num_epochs
    /\ pc' = "train_estimator"
    /\ UNCHANGED <<log_dir, data_dir, data_idx_dir, global_batch_size,
                   num_training_samples, train_idx_filenames, classifier,
                   training_hooks>>
    /\ UNCHANGED <<argVars, driverVars, endVars, logVars, sessVars>>

\* Lines 236-268: the session configuration and the estimator.
TrainEstimator ==
    /\ pc = "train_estimator"
    /\ classifier' =
          Some([model_dir |-> log_dir,
                params    |-> TrainEstimatorParams(params, decay_steps),
                config    |-> TrainRunConfig(rank, params.checkpoint_secs,
                                             Val(nstep))])
    /\ pc' = "train_hooks"
    /\ UNCHANGED <<log_dir, data_dir, data_idx_dir, global_batch_size,
                   num_training_samples, train_idx_filenames, nstep,
                   decay_steps, num_epochs, training_hooks>>
    /\ UNCHANGED <<argVars, driverVars, endVars, logVars, sessVars>>

\* Lines 270-294: print "Training", build the hooks and the input function.
TrainHooks ==
    /\ pc = "train_hooks"
    /\ stdout' = stdout \cup {"Training"}
    /\ training_hooks' = Some(TrainingHooks(rank))
    /\ pc' = "train_call"
    /\ UNCHANGED <<log_dir, data_dir, data_idx_dir, global_batch_size,
                   num_training_samples, train_idx_filenames, nstep,
                   decay_steps, num_epochs, classifier>>
    /\ UNCHANGED <<argVars, driverVars, raised, outcome, logVars, sessVars>>

\* Whether the estimator saves checkpoints under a run configuration.
SavesCheckpoints(config) ==
    config.save_checkpoints_secs # None \/ config.save_checkpoints_steps # None

HasLogHook(hooks) ==
    \E i \in DOMAIN hooks : hooks[i] = "_LogSessionRunHook"

\* Lines 296-300, entering the driver: classifier.train builds the graph by
\* calling _cnn_model_function with the estimator params, creates the session
\* and runs the hooks' after_create_session.
TrainDriverBegin ==
    /\ pc = "train_call"
    /\ max_steps' = nstep
    /\ received' = Some(ModelFunctionLocals(Val(classifier).params))
    /\ driver_step' = 0
    /\ stdout' = stdout \cup (IF HasLogHook(Val(training_hooks))
                              THEN {"header"} ELSE {})
    /\ pc' = "train_running"
    /\ UNCHANGED <<checkpointed, evaluated, raised, outcome>>
    /\ UNCHANGED <<argVars, localVars, logVars, sessVars>>

\* The driver runs optimizer steps up to max_steps; the logging hook, where
\* installed, may print progress lines, and checkpoints are saved where the
\* run configuration asks for them.
TrainDriverSteps ==
    /\ pc = "train_running"
    /\ driver_step < Val(max_steps)
    /\ driver_step' = Val(max_steps)
    /\ \E lines \in (IF HasLogHook(Val(training_hooks))
                     THEN {{}, {"progress"}} ELSE {{}}) :
          stdout' = stdout \cup lines
    /\ checkpointed' = (checkpointed \/ SavesCheckpoints(Val(classifier).config))
    /\ UNCHANGED <<max_steps, received, evaluated, raised, outcome, pc>>
    /\ UNCHANGED <<argVars, localVars, logVars, sessVars>>

\* The driver returns once max_steps steps were run.
TrainDriverEnd ==
    /\ pc = "train_running"
    /\ driver_step >= Val(max_steps)
    /\ Return
    /\ UNCHANGED <<stdout, driverVars>>
    /\ UNCHANGED <<argVars, localVars, logVars, sessVars>>

-----------------------------------------------------------------------------
(* validate (lines 304-396) *)

\* The configuration check of validate (lines 335-338).
ConfigErrorDataDirOnly(data, log) == data = None

ConfigError(data, log) == data = None \/ log = None

\* The params of the estimator built by validate (lines 354-369).
ValidateEstimatorParams(p) ==
    [format              |-> p.image_format,
     dtype               |-> IF p.precision = "fp16" THEN "float16" ELSE "float32",
     momentum            |-> p.momentum,
     learning_rate_init  |-> p.learning_rate_init,
     learning_rate_power |-> p.learning_rate_power,
     decay_steps         |-> None,
     weight_decay        |-> p.weight_decay,
     loss_scale          |-> p.loss_scale,
     larc_eta            |-> p.larc_eta,
     larc_mode           |-> p.larc_mode,
     deterministic       |-> FALSE,
     n_classes           |-> 1000,
     use_dali            |-> FALSE]

\* The workers that run the evaluation (line 384).
Evaluates(r) == r = 0

\* Lines 305-338: read the params, normalise the directories and raise
\* ValueError when one of them is unset.
ValidateArgs ==
    /\ pc = "validate_args"
    /\ log_dir' = NoneIfEmpty(params.log_dir)
    /\ data_dir' = NoneIfEmpty(params.data_dir)
    /\ IF ConfigError(NoneIfEmpty(params.data_dir), NoneIfEmpty(params.log_dir))
       THEN Throw("ValueError", pc)
       ELSE /\ pc' = "validate_glob"
            /\ UNCHANGED endVars
    /\ UNCHANGED <<data_idx_dir, global_batch_size, num_training_samples,
                   train_idx_filenames, nstep, decay_steps, num_epochs,
                   classifier, training_hooks>>
    /\ UNCHANGED <<argVars, driverVars, logVars, sessVars>>

\* Lines 340-341: the validation files.
ValidateGlob ==
    /\ pc = "validate_glob"
    /\ pc' = "validate_estimator"
    /\ UNCHANGED <<argVars, localVars, driverVars, endVars, logVars, sessVars>>

\* Lines 343-382: the session configuration and the estimator.
ValidateEstimator ==
    /\ pc = "validate_estimator"
    /\ classifier' =
          Some([model_dir |-> log_dir,
                params    |-> ValidateEstimatorParams(params),
                config    |-> [save_checkpoints_secs  |-> None,
                               save_checkpoints_steps |-> None]])
    /\ pc' = "validate_rank"
    /\ UNCHANGED <<log_dir, data_dir, data_idx_dir, global_batch_size,
                   num_training_samples, train_idx_filenames, nstep,
                   decay_steps, num_epochs, training_hooks>>
    /\ UNCHANGED <<argVars, driverVars, endVars, logVars, sessVars>>

\* Lines 384-385: only rank 0 goes on to evaluate.
ValidateRank ==
    /\ pc = "validate_rank"
    /\ IF Evaluates(rank)
       THEN /\ stdout' = stdout \cup {"Evaluating"}
            /\ pc' = "validate_evaluate"
            /\ UNCHANGED <<raised, outcome>>
       ELSE /\ Return
            /\ UNCHANGED stdout
    /\ UNCHANGED <<argVars, localVars, driverVars, logVars, sessVars>>

\* Lines 387-392, entering the driver: classifier.evaluate builds the graph
\* by calling _cnn_model_function with the estimator params.
EvaluateBegin ==
    /\ pc = "validate_evaluate"
    /\ evaluated' = TRUE
    /\ received' = Some(ModelFunctionLocals(Val(classifier).params))
    /\ pc' = "validate_evaluating"
    /\ UNCHANGED <<max_steps, driver_step, checkpointed>>
    /\ UNCHANGED <<argVars, localVars, endVars, logVars, sessVars>>

\* The evaluation driver returns the metrics.
EvaluateEnd ==
    /\ pc = "validate_evaluating"
    /\ pc' = "validate_top1"
    /\ UNCHANGED <<argVars, localVars, driverVars, endVars, logVars, sessVars>>

\* Line 393.
ValidateTop1 ==
    /\ pc = "validate_top1"
    /\ stdout' = stdout \cup {"Top-1 accuracy"}
    /\ pc' = "validate_top5"
    /\ UNCHANGED <<raised, outcome>>
    /\ UNCHANGED <<argVars, localVars, driverVars, logVars, sessVars>>

\* Line 394, then the function returns.
ValidateTop5 ==
    /\ pc = "validate_top5"
    /\ stdout' = stdout \cup {"Top-5 accuracy"}
    /\ Return
    /\ UNCHANGED <<argVars, localVars, driverVars, logVars, sessVars>>

-----------------------------------------------------------------------------
(* The training session: _cnn_model_function, the hooks, the staging areas *)

\* What the session leaves alone.
SessionFrame ==
    UNCHANGED <<argVars, pc, localVars, max_steps, received, checkpointed,
                evaluated, raised, outcome>>

\* _stage (lines 30-39): a staging area with its put and its get; the put
\* operation is added to the collection STAGING_AREA_PUTS.
Stage(collection, put_op) == Append(collection, put_op)

\* The staging of _cnn_model_function in training (lines 97-103): the host
\* area, then the device area; none with DALI.
StagingAreaPuts(use_dali) ==
    IF ~use_dali
    THEN Stage(Stage(<<>>, "preload_op"), "gpucopy_op")
    ELSE <<>>

\* The operations grouped into train_op (lines 162-165).
TrainOpGroup(use_dali) ==
    IF use_dali
    THEN {"step_update"}
    ELSE {"preload_op", "gpucopy_op", "step_update"}

\* enqueue_ops[:i+1] (line 46).
PrefillOpsOffByOne(ops, i) == SubSeq(ops, 1, i)

PrefillOps(ops, i) == SubSeq(ops, 1, i + 1)

Range(f) == {f[i] : i \in DOMAIN f}

\* The estimator calls _cnn_model_function in training mode.
ModelFunction ==
    /\ sess_pc = "graph"
    /\ enqueue_ops' = StagingAreaPuts(params.use_dali)
    /\ train_op' = TrainOpGroup(params.use_dali)
    /\ sess_pc' = "hooks"
    /\ UNCHANGED <<host_area, device_area, gpucopy_in, next_batch, pending,
                   hook_idx, prefill_i, events, trained>>
    /\ UNCHANGED <<driver_step, stdout, logVars>>
    /\ SessionFrame

\* The session was created: after_create_session is called on the hooks in
\* the order of the list; after the last one the session is ready to step.
HookTurn(name) ==
    /\ sess_pc = "hooks"
    /\ hook_idx <= Len(Val(training_hooks))
    /\ Val(training_hooks)[hook_idx] = name

HookDone(name) ==
    /\ events' = Append(events, name)
    /\ hook_idx' = hook_idx + 1
    /\ sess_pc' = IF hook_idx + 1 > Len(Val(training_hooks))
                  THEN "ready" ELSE "hooks"

\* hvd.BroadcastGlobalVariablesHook(0): the variables of rank 0 are copied
\* to this worker.
BroadcastAfterCreateSession ==
    /\ HookTurn("BroadcastGlobalVariablesHook")
    /\ HookDone("BroadcastGlobalVariablesHook")
    /\ UNCHANGED <<enqueue_ops, train_op, host_area, device_area, gpucopy_in,
                   next_batch, pending, prefill_i, trained>>
    /\ UNCHANGED <<driver_step, stdout, logVars>>
    /\ SessionFrame

\* _PrefillStagingAreasHook.after_create_session (lines 42-46): the loop.
PrefillAfterCreateSession ==
    /\ HookTurn("_PrefillStagingAreasHook")
    /\ sess_pc' = "prefill"
    /\ prefill_i' = 0
    /\ UNCHANGED <<enqueue_ops, train_op, host_area, device_area, gpucopy_in,
                   next_batch, pending, hook_idx, events, trained>>
    /\ UNCHANGED <<driver_step, stdout, logVars>>
    /\ SessionFrame

\* One iteration: session.run(enqueue_ops[:i+1]), issued once the previous
\* run has completed.
PrefillRun ==
    /\ sess_pc = "prefill"
    /\ pending = {}
    /\ prefill_i < Len(enqueue_ops)
    /\ pending' = Range(PrefillOps(enqueue_ops, prefill_i))
    /\ prefill_i' = prefill_i + 1
    /\ UNCHANGED <<sess_pc, enqueue_ops, train_op, host_area, device_area,
                   gpucopy_in, next_batch, hook_idx, events, trained>>
    /\ UNCHANGED <<driver_step, stdout, logVars>>
    /\ SessionFrame

\* The loop ends.
PrefillDone ==
    /\ sess_pc = "prefill"
    /\ pending = {}
    /\ prefill_i >= Len(enqueue_ops)
    /\ HookDone("_PrefillStagingAreasHook")
    /\ UNCHANGED <<enqueue_ops, train_op, host_area, device_area, gpucopy_in,
                   next_batch, pending, prefill_i, trained>>
    /\ UNCHANGED <<driver_step, stdout, logVars>>
    /\ SessionFrame

\* _LogSessionRunHook.after_create_session (lines 53-56).
LogSetup ==
    /\ HookTurn("_LogSessionRunHook")
    /\ HookDone("_LogSessionRunHook")
    /\ stdout' = stdout \cup {"header"}
    /\ HookAfterCreateSession
    /\ UNCHANGED <<enqueue_ops, train_op, host_area, device_area, gpucopy_in,
                   next_batch, pending, prefill_i, trained>>
    /\ UNCHANGED driver_step
    /\ SessionFrame

\* preload_op: put the next batch of the input pipeline into the host area.
PreloadOp ==
    /\ "preload_op" \in pending
    /\ host_area' = Append(host_area, next_batch)
    /\ next_batch' = next_batch + 1
    /\ pending' = pending \ {"preload_op"}
    /\ UNCHANGED <<sess_pc, enqueue_ops, train_op, device_area, gpucopy_in,
                   hook_idx, prefill_i, events, trained>>
    /\ UNCHANGED <<driver_step, stdout, logVars>>
    /\ SessionFrame

\* gpucopy_op, first half: get the oldest batch of the host area; the get
\* waits while the area is empty.
GpuCopyGet ==
    /\ "gpucopy_op" \in pending
    /\ gpucopy_in = None
    /\ host_area # <<>>
    /\ gpucopy_in' = Some(Head(host_area))
    /\ host_area' = Tail(host_area)
    /\ UNCHANGED <<sess_pc, enqueue_ops, train_op, device_area, next_batch,
                   pending, hook_idx, prefill_i, events, trained>>
    /\ UNCHANGED <<driver_step, stdout, logVars>>
    /\ SessionFrame

\* gpucopy_op, second half: put that batch into the device area.
GpuCopyPut ==
    /\ "gpucopy_op" \in pending
    /\ gpucopy_in # None
    /\ device_area' = Append(device_area, Val(gpucopy_in))
    /\ gpucopy_in' = None
    /\ pending' = pending \ {"gpucopy_op"}
    /\ UNCHANGED <<sess_pc, enqueue_ops, train_op, host_area, next_batch,
                   hook_idx, prefill_i, events, trained>>
    /\ UNCHANGED <<driver_step, stdout, logVars>>
    /\ SessionFrame

\* step_update: the optimizer step.  Its input is the get of the device
\* area, or with DALI the input pipeline itself.
StepUpdate ==
    /\ "step_update" \in pending
    /\ IF enqueue_ops # <<>>
       THEN /\ device_area # <<>>
            /\ trained' = Append(trained, Head(device_area))
            /\ device_area' = Tail(device_area)
            /\ UNCHANGED next_batch
       ELSE /\ trained' = Append(trained, next_batch)
            /\ next_batch' = next_batch + 1
            /\ UNCHANGED device_area
    /\ driver_step' = driver_step + 1
    /\ pending' = pending \ {"step_update"}
    /\ UNCHANGED <<sess_pc, enqueue_ops, train_op, host_area, gpucopy_in,
                   hook_idx, prefill_i, events>>
    /\ UNCHANGED <<stdout, logVars>>
    /\ SessionFrame

\* The driver runs train_op while fewer than max_steps steps were made,
\* after calling before_run on the logging hook where it is installed.
StepBegin ==
    /\ sess_pc = "ready"
    /\ driver_step < Val(max_steps)
    /\ pending' = train_op
    /\ sess_pc' = "step"
    /\ IF HasLogHook(Val(training_hooks))
       THEN \E gap \in 0..1 : HookBeforeRun(gap)
       ELSE UNCHANGED logVars
    /\ UNCHANGED <<enqueue_ops, train_op, host_area, device_area, gpucopy_in,
                   next_batch, hook_idx, prefill_i, events, trained>>
    /\ UNCHANGED <<driver_step, stdout>>
    /\ SessionFrame

\* session.run returns when every operation of train_op has run; after_run
\* is called on the logging hook with the value fetched from step_update,
\* the global step as it was before or after this step's increment.
StepEnd ==
    /\ sess_pc = "step"
    /\ pending = {}
    /\ sess_pc' = "ready"
    /\ IF HasLogHook(Val(training_hooks))
       THEN \E d \in 0..MaxDt, fetched \in {driver_step - 1, driver_step} :
               /\ HookAfterRun(d, fetched)
               /\ stdout' = stdout \cup
                     (IF ShouldPrint(fetched + 1, display_every)
                      THEN {"progress"} ELSE {})
       ELSE UNCHANGED <<logVars, stdout>>
    /\ UNCHANGED <<enqueue_ops, train_op, host_area, device_area, gpucopy_in,
                   next_batch, pending, hook_idx, prefill_i, events, trained>>
    /\ UNCHANGED driver_step
    /\ SessionFrame

\* max_steps steps were made: the session is closed.
SessionEnd ==
    /\ sess_pc = "ready"
    /\ driver_step >= Val(max_steps)
    /\ sess_pc' = "finished"
    /\ UNCHANGED <<enqueue_ops, train_op, host_area, device_area, gpucopy_in,
                   next_batch, pending, hook_idx, prefill_i, events, trained>>
    /\ UNCHANGED <<driver_step, stdout, logVars>>
    /\ SessionFrame

-----------------------------------------------------------------------------
(* Initial states *)

\* Two settings of the hyperparameters, differing in every field.
HyperSets ==
    { [image_format |-> "channels_first", precision |-> "fp16",
       momentum |-> 11, learning_rate_init |-> 12, learning_rate_power |-> 13,
       weight_decay |-> 14, loss_scale |-> 15, larc_eta |-> 16,
       larc_mode |-> "clip", use_dali |-> TRUE, data_idx_dir |-> "/idx",
       checkpoint_secs |-> None, display_every |-> 1],
      [image_format |-> "channels_last", precision |-> "fp32",
       momentum |-> 21, learning_rate_init |-> 22, learning_rate_power |-> 23,
       weight_decay |-> 24, loss_scale |-> 25, larc_eta |-> 26,
       larc_mode |-> "scale", use_dali |-> FALSE, data_idx_dir |-> "",
       checkpoint_secs |-> Some(600), display_every |-> 2] }

IterUnits == { <<"e", "p", "o", "c", "h">>, <<"E", "p", "o", "c", "H">>,
               <<"b", "a", "t", "c", "h">> }

File(n) == [i \in 1..n |-> "record"]

RECURSIVE TotalRecords(_)
TotalRecords(filenames) ==
    IF filenames = <<>> THEN 0
    ELSE Len(Head(filenames)) + TotalRecords(Tail(filenames))

\* The lists of at most MaxFiles non-empty files holding at most MaxRecords
\* records in all.
FileLists ==
    { fs \in UNION { [1..k -> {File(n) : n \in 1..MaxRecords}] :
                        k \in 0..MaxFiles } :
         TotalRecords(fs) <= MaxRecords }

\* The logging hook does not exist.
LogAbsent ==
    /\ display_every = Unset
    /\ elapsed_secs = Unset
    /\ count = Unset
    /\ t0 = Unset
    /\ now = 0
    /\ hookpc = "absent"
    /\ calls = <<>>

\* No local is assigned, the driver did nothing, nothing was printed.
Entered ==
    /\ log_dir = None
    /\ data_dir = None
    /\ data_idx_dir = None
    /\ global_batch_size = None
    /\ num_training_samples = None
    /\ train_idx_filenames = None
    /\ nstep = None
    /\ decay_steps = None
    /\ num_epochs = None
    /\ classifier = None
    /\ training_hooks = None
    /\ max_steps = None
    /\ received = None
    /\ driver_step = 0
    /\ checkpointed = FALSE
    /\ evaluated = FALSE
    /\ stdout = {}
    /\ raised = None
    /\ outcome = [status |-> "running", exc |-> ""]

\* No training session exists.
SessionAbsent ==
    /\ sess_pc = "absent"
    /\ enqueue_ops = <<>>
    /\ train_op = {}
    /\ host_area = <<>>
    /\ device_area = <<>>
    /\ gpucopy_in = None
    /\ next_batch = 1
    /\ pending = {}
    /\ hook_idx = 1
    /\ prefill_i = 0
    /\ events = <<>>
    /\ trained = <<>>

\* A worker enters train or validate.  The arguments validate never uses in
\* its arithmetic are held at one value there.
Init ==
    /\ LogAbsent
    /\ SessionAbsent
    /\ Entered
    /\ op \in {"train", "validate"}
    /\ size \in 1..MaxSize
    /\ rank \in 0..(size - 1)
    /\ pc = IF op = "train" THEN "train_args" ELSE "validate_args"
    /\ \E h \in HyperSets, data \in {"", "/data"}, log \in {"", "/log"},
          b \in 1..MaxBatch, n \in 1..MaxIter, u \in IterUnits :
          /\ op = "validate" => (b = 1 /\ n = 1 /\ u = EpochWord)
          /\ params = h @@ [data_dir |-> data, log_dir |-> log,
                            batch_size |-> b, num_iter |-> n, iter_unit |-> u]
    /\ train_files \in
          IF op = "train" /\ params.data_dir # "" THEN FileLists ELSE {<<>>}

Next ==
    \/ TrainArgs
    \/ TrainRecords
    \/ TrainSteps
    \/ TrainEstimator
    \/ TrainHooks
    \/ TrainDriverBegin
    \/ TrainDriverSteps
    \/ TrainDriverEnd
    \/ ValidateArgs
    \/ ValidateGlob
    \/ ValidateEstimator
    \/ ValidateRank
    \/ EvaluateBegin
    \/ EvaluateEnd
    \/ ValidateTop1
    \/ ValidateTop5
    \/ Failure
    \/ Interrupt

Spec == Init /\ [][Next]_vars

\* A worker is inside classifier.train (lines 297-300): the estimator and the
\* hooks were built, the logging hook was constructed on rank 0.
InitSession ==
    /\ op = "train"
    /\ size \in 1..MaxSize
    /\ rank \in 0..(size - 1)
    /\ pc = "train_running"
    /\ \E h \in HyperSets :
          params = h @@ [data_dir |-> "", log_dir |-> "", batch_size |-> 1,
                         num_iter |-> 1, iter_unit |-> EpochWord]
    /\ train_files = <<>>
    /\ log_dir = None
    /\ data_dir = None
    /\ data_idx_dir = NoneIfEmpty(params.data_idx_dir)
    /\ global_batch_size = Some(size)
    /\ num_training_samples = Some(size)
    /\ train_idx_filenames = IF data_idx_dir # None THEN Some(<<>>) ELSE None
    /\ nstep \in {Some(n) : n \in 1..MaxSteps}
    /\ decay_steps = Some(90)
    /\ num_epochs = Some(Val(nstep))
    /\ classifier = Some([model_dir |-> log_dir,
                          params    |-> TrainEstimatorParams(params, decay_steps),
                          config    |-> TrainRunConfig(rank, params.checkpoint_secs,
                                                       Val(nstep))])
    /\ training_hooks = Some(TrainingHooks(rank))
    /\ max_steps = nstep
    /\ received = None
    /\ driver_step = 0
    /\ checkpointed = FALSE
    /\ evaluated = FALSE
    /\ stdout = {"Training"}
    /\ raised = None
    /\ outcome = [status |-> "running", exc |-> ""]
    /\ display_every = IF rank = 0 THEN params.display_every ELSE Unset
    /\ elapsed_secs = Unset
    /\ count = Unset
    /\ t0 = Unset
    /\ now = 0
    /\ hookpc = IF rank = 0 THEN "constructed" ELSE "absent"
    /\ calls = <<>>
    /\ sess_pc = "graph"
    /\ enqueue_ops = <<>>
    /\ train_op = {}
    /\ host_area = <<>>
    /\ device_area = <<>>
    /\ gpucopy_in = None
    /\ next_batch = 1
    /\ pending = {}
    /\ hook_idx = 1
    /\ prefill_i = 0
    /\ events = <<>>
    /\ trained = <<>>

NextSession ==
    \/ ModelFunction
    \/ BroadcastAfterCreateSession
    \/ PrefillAfterCreateSession
    \/ PrefillRun
    \/ PrefillDone
    \/ LogSetup
    \/ PreloadOp
    \/ GpuCopyGet
    \/ GpuCopyPut
    \/ StepUpdate
    \/ StepBegin
    \/ StepEnd
    \/ SessionEnd

SpecSession == InitSession /\ [][NextSession]_vars

InitLog ==
    /\ display_every \in 1..MaxDisplayEvery
    /\ elapsed_secs = Unset
    /\ count = Unset
    /\ t0 = Unset
    /\ now = 0
    /\ hookpc = "constructed"
    /\ calls = <<>>
    /\ SessionAbsent
    /\ Entered
    /\ op = "train"
    /\ rank = 0
    /\ size = 1
    /\ params = None
    /\ train_files = <<>>
    /\ pc = "hook"

NextLog ==
    \/ LogAfterCreateSession
    \/ LogBeforeRun
    \/ LogAfterRun

SpecLog == InitLog /\ [][NextLog]_vars

-----------------------------------------------------------------------------
(* Claims about the logging hook *)

IsRun(i) == calls[i].kind = "run"

\* Index of the latest entry before i that zeroed the accumulator (a printing
\* run or after_create_session); 0 when there is none.
RECURSIVE LastReset(_)
LastReset(i) ==
    IF i = 0 THEN 0
    ELSE IF calls[i].printed THEN i
    ELSE LastReset(i - 1)

RECURSIVE SumDur(_, _)
SumDur(lo, hi) ==
    IF hi <= lo THEN 0 ELSE calls[hi].dur + SumDur(lo, hi - 1)

\* C1: a call of after_run prints a progress line if and only if its
\* print_step (fetched global step plus one) is 1 or a multiple of
\* display_every.
C1_PrintsOnFirstAndEveryNth ==
    \A i \in DOMAIN calls :
        IsRun(i) =>
            (calls[i].printed <=>
                (calls[i].print_step = 1
                 \/ \E k \in 1..(MaxGlobalStep + 2) :
                        calls[i].print_step = k * display_every))

C1_Witness ==
    /\ display_every = 2
    /\ \E i, j, k \in DOMAIN calls :
          /\ IsRun(i) /\ calls[i].print_step = 1 /\ calls[i].printed
          /\ IsRun(j) /\ calls[j].print_step = 4 /\ calls[j].printed
          /\ IsRun(k) /\ calls[k].print_step = 3 /\ ~calls[k].printed

\* C2: right after an after_run call that printed, count and elapsed_secs
\* are zero, and every printed rate is computed from exactly the runs made
\* since the previous print or after_create_session.
C2_AccumulatorResetAfterPrint ==
    /\ (hookpc = "idle" /\ Len(calls) > 0 /\ calls[Len(calls)].printed)
           => (count = 0 /\ elapsed_secs = 0)
    /\ \A i \in DOMAIN calls :
          (IsRun(i) /\ calls[i].printed) =>
              /\ calls[i].rep_count = i - LastReset(i - 1)
              /\ calls[i].rep_elapsed = SumDur(LastReset(i - 1), i)

C2_Witness ==
    /\ Len(calls) >= 4
    /\ hookpc = "idle"
    /\ IsRun(2) /\ calls[2].printed /\ calls[2].dur > 0
    /\ IsRun(3) /\ ~calls[3].printed /\ calls[3].dur > 0
    /\ IsRun(4) /\ calls[4].printed /\ calls[4].rep_count = 2

-----------------------------------------------------------------------------
(* Claims about train and validate *)

KeyboardInterrupt == "KeyboardInterrupt"

Raised(e, status) ==
    outcome = [status |-> status, exc |-> IF status = "raised" THEN e ELSE ""]

\* C3: validate raises ValueError whenever data_dir or log_dir is "", on
\* every rank, and then builds no estimator and starts no evaluation; with
\* both set it raises no ValueError.
C3_ValidateConfigError ==
    op = "validate" =>
        /\ (params.data_dir = "" \/ params.log_dir = "") =>
              /\ classifier = None
              /\ ~evaluated
              /\ pc # "validate_args" => Raised("ValueError", "raised")
        /\ (params.data_dir # "" /\ params.log_dir # "") =>
              outcome.exc # "ValueError"

C3_Witness ==
    /\ op = "validate"
    /\ rank = 1
    /\ params.data_dir # ""
    /\ params.log_dir = ""
    /\ pc = "done"
    /\ Raised("ValueError", "raised")

\* C4: a keyboard interrupt delivered while the training driver runs in
\* train, or the evaluation driver in validate, is caught: the notice is
\* printed, the call returns normally, and nothing after the driver call is
\* executed.
C4_InterruptCaughtInDriver ==
    (raised # None /\ Val(raised).type = KeyboardInterrupt
       /\ Val(raised).at \in {"train_call", "train_running",
                              "validate_evaluate", "validate_evaluating"})
        => /\ pc = "done"
           /\ Raised("", "returned")
           /\ "Keyboard interrupt" \in stdout
           /\ "Top-1 accuracy" \notin stdout
           /\ "Top-5 accuracy" \notin stdout

C4_Witness ==
    /\ op = "validate"
    /\ raised = Some([type |-> KeyboardInterrupt, at |-> "validate_evaluating"])
    /\ evaluated
    /\ Raised("", "returned")

\* q is the floor of a / b.
IsFloorDiv(q, a, b) == q * b <= a /\ a < (q + 1) * b

\* "epoch" in any mix of upper and lower case.
IsEpochUnit(u) ==
    /\ Len(u) = 5
    /\ u[1] \in {"e", "E"} /\ u[2] \in {"p", "P"} /\ u[3] \in {"o", "O"}
    /\ u[4] \in {"c", "C"} /\ u[5] \in {"h", "H"}

\* The documented formulas, for N training records.
StepFormulas(N) ==
    LET G == params.batch_size * size
    IN  (op = "train" /\ nstep # None) =>
            /\ IF IsEpochUnit(params.iter_unit)
               THEN /\ IsFloorDiv(Val(nstep), N * params.num_iter, G)
                    /\ decay_steps = nstep
               ELSE /\ Val(nstep) = params.num_iter
                    /\ \E e \in 0..(params.num_iter * G) :
                          /\ IsFloorDiv(e, params.num_iter * G, N)
                          /\ Val(num_epochs) = IF e >= 1 THEN e ELSE 1
                    /\ IsFloorDiv(Val(decay_steps), 90 * N, G)
            /\ max_steps # None => max_steps = nstep
            /\ received # None => Val(received).decay_steps = decay_steps

\* The records of the first file times the files before the last, plus the
\* records of the last file.
EstimatedRecords(filenames) ==
    Len(filenames[1]) * (Len(filenames) - 1) + Len(filenames[Len(filenames)])

\* C5 as stated: the formulas hold with N the number of training records
\* (N = G when data_dir is unset).
C5_StepCountsOfRecordCount ==
    StepFormulas(IF params.data_dir = ""
                 THEN params.batch_size * size
                 ELSE TotalRecords(train_files))

\* C5 as amended: the formulas hold with N the number _get_num_records
\* returns, which counts the first file once for every file but the last and
\* adds the last file (N = G when data_dir is unset); nstep and decay_steps
\* so computed are passed to the driver and to the model function.
C5_StepCountsOfEstimate ==
    StepFormulas(IF params.data_dir = ""
                 THEN params.batch_size * size
                 ELSE EstimatedRecords(train_files))

C5_Witness ==
    /\ op = "train"
    /\ params.iter_unit = <<"E", "p", "o", "c", "H">>
    /\ params.data_dir # ""
    /\ Len(train_files) = 3
    /\ TotalRecords(train_files) # EstimatedRecords(train_files)
    /\ size = 2
    /\ received # None
    /\ Val(nstep) >= 1
    /\ Raised("", "returned")

\* The hyperparameters other than use_dali reach the model function as
\* supplied.
ThreadedUnchanged ==
    LET r == Val(received)
    IN  /\ r.model_format = params.image_format
        /\ r.momentum = params.momentum
        /\ r.learning_rate_init = params.learning_rate_init
        /\ r.learning_rate_power = params.learning_rate_power
        /\ r.weight_decay = params.weight_decay
        /\ r.loss_scale = params.loss_scale
        /\ r.larc_eta = params.larc_eta
        /\ r.larc_mode = params.larc_mode

\* C6 as stated: every hyperparameter, use_dali included, reaches the model
\* function as supplied, in train and in validate.
C6_AllThreadedUnchanged ==
    received # None =>
        /\ ThreadedUnchanged
        /\ Val(received).use_dali = params.use_dali

\* C6 as amended: image format, momentum, learning_rate_init,
\* learning_rate_power, weight_decay, loss_scale, larc_eta and larc_mode reach
\* the model function as supplied in train and in validate; use_dali does so
\* in train, and in validate the model function always receives False.
C6_ThreadedExceptDaliInValidate ==
    received # None =>
        /\ ThreadedUnchanged
        /\ op = "train" => Val(received).use_dali = params.use_dali
        /\ op = "validate" => Val(received).use_dali = FALSE

C6_Witness ==
    /\ op = "validate"
    /\ params.use_dali = TRUE
    /\ received # None
    /\ pc = "validate_top1"

\* An exception that is no keyboard interrupt leaves the call unchanged.
OthersPropagate ==
    (raised # None /\ Val(raised).type # KeyboardInterrupt)
        => Raised(Val(raised).type, "raised")

\* C7 as stated: every exception other than a keyboard interrupt propagates
\* unchanged, and so does a keyboard interrupt raised outside the driver
\* call.
C7_PropagatesOutsideDriverCall ==
    /\ OthersPropagate
    /\ (raised # None /\ Val(raised).type = KeyboardInterrupt
           /\ Val(raised).at \notin {"train_call", "train_running",
                                     "validate_evaluate", "validate_evaluating"})
          => Raised(KeyboardInterrupt, "raised")

\* C7 as amended: every exception other than a keyboard interrupt propagates
\* unchanged, and so does a keyboard interrupt raised outside the try
\* blocks, which hold the training driver call in train and, in validate,
\* the evaluation driver call and the two accuracy prints after it.
C7_PropagatesOutsideTry ==
    /\ OthersPropagate
    /\ (raised # None /\ Val(raised).type = KeyboardInterrupt
           /\ Val(raised).at \notin {"train_call", "train_running",
                                     "validate_evaluate", "validate_evaluating",
                                     "validate_top1", "validate_top5"})
          => Raised(KeyboardInterrupt, "raised")

C7_Witness ==
    /\ op = "train"
    /\ raised = Some([type |-> "IOError", at |-> "train_running"])
    /\ driver_step > 0
    /\ Raised("IOError", "raised")

\* C10: a worker of rank other than 0 configures no checkpoint saving, has no
\* logging hook, and never writes a checkpoint, prints the header or a
\* progress line, runs an evaluation or prints an accuracy; rank 0 does
\* configure checkpoints and install the logging hook; and on every rank a
\* train call that ends without an exception has run all its steps.
C10_OnlyRankZeroSideEffects ==
    /\ rank # 0 =>
          /\ ~checkpointed
          /\ ~evaluated
          /\ stdout \cap {"header", "progress", "Evaluating",
                          "Top-1 accuracy", "Top-5 accuracy"} = {}
          /\ classifier # None =>
                /\ Val(classifier).config.save_checkpoints_secs = None
                /\ Val(classifier).config.save_checkpoints_steps = None
          /\ training_hooks # None =>
                \A i \in DOMAIN Val(training_hooks) :
                    Val(training_hooks)[i] # "_LogSessionRunHook"
    /\ (rank = 0 /\ op = "train") =>
          /\ classifier # None =>
                Val(classifier).config.save_checkpoints_steps = nstep
          /\ training_hooks # None =>
                \E i \in DOMAIN Val(training_hooks) :
                    Val(training_hooks)[i] = "_LogSessionRunHook"
    /\ (op = "train" /\ pc = "done" /\ raised = None) =>
          /\ received # None
          /\ driver_step = Val(max_steps)

C10_Witness ==
    /\ op = "train"
    /\ rank = 1
    /\ pc = "done"
    /\ raised = None
    /\ driver_step > 0
    /\ params.checkpoint_secs # None

-----------------------------------------------------------------------------
(* Claims about the training session *)

\* Position of a hook in the order of completion, 0 when it has not
\* completed.
Completed(name) ==
    IF \E i \in DOMAIN events : events[i] = name
    THEN CHOOSE i \in DOMAIN events : events[i] = name
    ELSE 0

StepStarted == driver_step > 0 \/ "step_update" \in pending

\* C8: the hooks complete in the order broadcast, prefill, logging setup
\* (the last on rank 0 only), the prefill does not start before the
\* broadcast has completed, and no optimizer step starts before all of them
\* have completed.
C8_HooksBeforeFirstStep ==
    LET b == Completed("BroadcastGlobalVariablesHook")
        f == Completed("_PrefillStagingAreasHook")
        l == Completed("_LogSessionRunHook")
    IN  /\ f > 0 => (b > 0 /\ b < f)
        /\ l > 0 => (f > 0 /\ f < l /\ rank = 0)
        /\ (sess_pc = "prefill" \/ host_area # <<>>) => b > 0
        /\ StepStarted => (b > 0 /\ f > 0 /\ (rank = 0 => l > 0))

C8_Witness ==
    /\ rank = 0
    /\ ~params.use_dali
    /\ events = <<"BroadcastGlobalVariablesHook", "_PrefillStagingAreasHook",
                  "_LogSessionRunHook">>
    /\ driver_step = 1
    /\ count = 0

\* The batches 1..n in order.
FirstBatches(n) == [i \in 1..n |-> i]

\* Between session runs, once the prefill hook has completed.
Quiescent ==
    /\ Completed("_PrefillStagingAreasHook") > 0
    /\ sess_pc \in {"hooks", "ready", "finished"}

\* C9: without DALI there are exactly two staging areas, host then device;
\* after the prefill and after every training step each holds exactly one
\* batch, the next two of the input pipeline; no get ever waits on an empty
\* area; and the steps consume the batches of the pipeline in order, none
\* lost and none twice.  With DALI there is no staging area and the prefill
\* runs nothing.
C9_StagingAreasHoldOneBatch ==
    /\ trained = FirstBatches(driver_step)
    /\ (~params.use_dali /\ sess_pc # "graph") =>
          /\ enqueue_ops = <<"preload_op", "gpucopy_op">>
          /\ Quiescent =>
                /\ device_area = <<driver_step + 1>>
                /\ host_area = <<driver_step + 2>>
                /\ next_batch = driver_step + 3
          /\ ("step_update" \in pending) => device_area # <<>>
          /\ ("gpucopy_op" \in pending /\ gpucopy_in = None) => host_area # <<>>
    /\ params.use_dali =>
          /\ enqueue_ops = <<>>
          /\ host_area = <<>>
          /\ device_area = <<>>
          /\ sess_pc \in {"graph", "hooks", "prefill"} => next_batch = 1
          /\ next_batch = driver_step + 1

C9_Witness ==
    /\ ~params.use_dali
    /\ sess_pc = "ready"
    /\ trained = <<1, 2>>
    /\ device_area = <<3>>
    /\ host_area = <<4>>

=============================================================================
